---- MODULE Spec2Model ----
(***************************************************************************)
(* uploadBigFile (src/src/component/Upload.ts): chunked upload with a      *)
(* bounded worker pool, per-chunk retry, persisted progress and the        *)
(* start / stop / continue / cancel control surface.                       *)
(*                                                                         *)
(* JavaScript runs the closure's code cooperatively: a step of the model   *)
(* is the code that runs between two suspension points (the await on       *)
(* fetch, the await on uploadChunk). Promise.all settles in the microtasks  *)
(* that follow the return or throw of a worker, where only continuations   *)
(* that were already queued can run and onSucceed() reads no state: the    *)
(* call is taken in the step of the worker that settles the pool.          *)
(***************************************************************************)
EXTENDS Integers, Sequences, FiniteSets, Bags, TLC

\* ---------------------------------------------------------------- bounds
MaxChunks == 2
MaxConcurrent == 2
MaxRetry == 1
MaxPools == 2
MaxPlanChunks == 4

\* ------------------------------------------------------- program constants
chunkSize == 5 * 1024 * 1024

VARIABLES
  fileSize,        \* file.size
  maxConcurrent,   \* options.maxConcurrent
  retryTimes,      \* options.retryTimes
  loadedChunk,     \* indices read from localStorage at construction
  storage,         \* the localStorage item under fileName
  isPaused,
  isCancel,
  uploadedChunks,  \* in-memory list of the indices saved by this instance
  current,         \* the shared cursor
  workers,         \* the worker closures launched so far (a bag: they are anonymous)
  pools,           \* one entry per startUpload() call: the state of its Promise.all
  \* ---- observations of the environment and of the callbacks
  sent,            \* sent[i]: number of fetch calls issued for chunk i
  outcomes,        \* outcomes[i]: how the attempts for chunk i ended
  onFailCalls,     \* onFailCalls[i][k]: onFail calls of kind k caused by chunk i
  onSucceedCalls,  \* number of onSucceed() calls
  onProgressCalls, \* the values passed to onProgress, in order
  validCalls,      \* every control call so far was made in its valid state
  stopHeld         \* stop() was called and continue() has not been called since

vars == <<fileSize, maxConcurrent, retryTimes, loadedChunk, storage, isPaused,
          isCancel, uploadedChunks, current, workers, pools, sent, outcomes,
          onFailCalls, onSucceedCalls, onProgressCalls, validCalls, stopHeld>>

config == <<fileSize, maxConcurrent, retryTimes, loadedChunk>>

\* ------------------------------------------------------------ pure helpers
\* the larger of the two, where the code takes the smaller
Min_Larger(a, b) == IF a < b THEN b ELSE a

\* Math.min
Min(a, b) == IF a < b THEN a ELSE b

\* Math.ceil(a / b) for a >= 0, b > 0
Ceil(a, b) == (a + b - 1) \div b

\* Array.prototype.includes
Includes(arr, x) == \E j \in DOMAIN arr : arr[j] = x

Range(arr) == {arr[j] : j \in DOMAIN arr}

\* number of positions of arr holding x
Count(arr, x) == Cardinality({j \in DOMAIN arr : arr[j] = x})

\* localStorage: an absent item reads as null
NoItem == [has |-> FALSE, val |-> <<>>]

\* a save that writes only the index just pushed
Item_LastOnly(list) ==
  [has |-> TRUE, val |-> IF list = <<>> THEN list ELSE <<list[Len(list)]>>]

\* localStorage.setItem(fileName, JSON.stringify(list))
Item(list) == [has |-> TRUE, val |-> list]

\* getUploadedChunks: data ? JSON.parse(data) : []
getUploadedChunks(store) == IF store.has THEN store.val ELSE <<>>

\* totalChunks = Math.ceil(file.size / chunkSize)
totalChunks == Ceil(fileSize, chunkSize)

Indices == 0 .. (totalChunks - 1)

\* createChunk: the while loop, from (start, index) with the chunks pushed so far
RECURSIVE createChunkLoop(_, _, _, _, _)
createChunkLoop(size, loaded, start, index, chunks) ==
  IF start < size
    THEN LET end == Min(size, start + chunkSize)
             pushed == IF ~Includes(loaded, index)
                         THEN Append(chunks, [index |-> index, start |-> start, end |-> end])
                         ELSE chunks
         IN createChunkLoop(size, loaded, end, index + 1, pushed)
    ELSE chunks

createChunk == createChunkLoop(fileSize, loadedChunk, 0, 0, <<>>)

\* (uploadedChunks.length / totalChunks) * 100, kept as the exact fraction num/den
Progress(len) == [num |-> len * 100, den |-> totalChunks]
IsHundred(p) == p.den > 0 /\ p.num = 100 * p.den


\* ------------------------------------------------------------------ inputs
\* file sizes: the whole numbers of chunks below MaxChunks, and MaxChunks chunks
\* of which the last holds a single byte
FileSizes == {n * chunkSize : n \in 0 .. (MaxChunks - 1)}
               \cup {(MaxChunks - 1) * chunkSize + 1}

\* maxConcurrent as the caller may pass it (the type is number)
ConcurrencyValues == (0 - 1) .. MaxConcurrent

\* file sizes for the chunk plan: up to MaxPlanChunks chunks, ending on a chunk
\* boundary, one byte after it, or one byte before the next
PlanSizes ==
  {n * chunkSize + d : n \in 0 .. (MaxPlanChunks - 1), d \in {0, 1, chunkSize - 1}}

RECURSIVE Ascending(_)
Ascending(S) ==
  IF S = {} THEN <<>>
  ELSE LET m == CHOOSE x \in S : \A y \in S : x <= y
       IN <<m>> \o Ascending(S \ {m})

\* what an earlier session of the same file can have left under fileName:
\* nothing, or the list of the indices it saved
InitialStores(n) ==
  {NoItem} \cup {Item(Ascending(K)) : K \in (SUBSET (0 .. (n - 1))) \ {{}}}

FailKinds == {"exhausted", "bad", "cancel"}

\* ----------------------------------------------------------------- workers
\* a worker is at its fetch ("fetch"), back from uploadChunk and about to
\* re-enter the while loop ("resume"), returned ("done") or rejected ("threw")
Worker(p, pc, chunk, retryCount) ==
  [pool |-> p, pc |-> pc, chunk |-> chunk, retryCount |-> retryCount]

\* the loop condition seen with an off-by-one bound
HasWork_OffByOne(cur) == cur <= totalChunks

\* the loop condition of the worker: current < totalChunks
HasWork(cur) == cur < totalChunks

\* One pass of the worker's code from the head of the while loop to the point
\* where it suspends, returns or throws (lines 185-191 and 147-154).
\* cur is the cursor it reads; the result carries the cursor it leaves.
WorkerLoop(p, paused, cur) ==
  IF HasWork(cur)
    THEN IF paused
           THEN [w |-> Worker(p, "done", 0, 0), cur |-> cur]
           ELSE \* const chunkIndex = current++; const data = fileChunk[chunkIndex]
                IF cur + 1 \in DOMAIN createChunk
                  THEN [w |-> Worker(p, "fetch", createChunk[cur + 1].index, 0),
                        cur |-> cur + 1]
                  ELSE \* data is undefined: chunk.blob throws a TypeError
                       [w |-> Worker(p, "threw", 0, 0), cur |-> cur + 1]
    ELSE [w |-> Worker(p, "done", 0, 0), cur |-> cur]

\* a launch in which the n workers all read the cursor before any of them
\* advances it
LaunchWorkers_SharedRead(n, p, paused, cur, ws) ==
  IF n <= 0 THEN [ws |-> ws, cur |-> cur]
  ELSE LET r == WorkerLoop(p, paused, cur)
       IN [ws |-> ws \o [j \in 1 .. n |-> r.w], cur |-> r.cur]

\* new Array(n).fill(null).map(async () => ...): the n workers run one after
\* the other, each up to its first suspension
RECURSIVE LaunchWorkers(_, _, _, _, _)
LaunchWorkers(n, p, paused, cur, ws) ==
  IF n <= 0 THEN [ws |-> ws, cur |-> cur]
  ELSE LET r == WorkerLoop(p, paused, cur)
       IN LaunchWorkers(n - 1, p, paused, r.cur, Append(ws, r.w))

\* the fetch calls issued by the workers ws, added to the per-chunk counters
Issued(cnt, ws) ==
  [i \in Indices |->
     cnt[i] + Cardinality({j \in DOMAIN ws : ws[j].pc = "fetch" /\ ws[j].chunk = i})]

\* the workers of the sequence ws as a bag
AsBag(ws) == [w \in Range(ws) |-> Count(ws, w)]

\* the bag ws with one worker w replaced by v
Replaced(ws, w, v) == (ws (-) SetToBag({w})) (+) SetToBag({v})

Workers == BagToSet(workers)

PoolWorkers(p) == {w \in Workers : w.pool = p}

\* await Promise.all(pool): a promise that is settled stays as it is; it
\* rejects with the first worker that throws and resolves once every worker of
\* ws has returned
PromiseAll(status, ws) ==
  IF status # "pending" THEN status
  ELSE IF \E w \in ws : w.pc = "threw" THEN "rejected"
  ELSE IF \A w \in ws : w.pc = "done" THEN "succeeded"
  ELSE "pending"

\* onSucceed() is called when the await on Promise.all returns
Succeeds(before, after) == IF before = "pending" /\ after = "succeeded" THEN 1 ELSE 0

\* no attempt for the chunk has ended yet
NoOutcome == [rejects |-> 0, resolved |-> "none", cancelled |-> FALSE]

\* ------------------------------------------------------------ session state
Started == Len(pools) > 0
Active ==
  \/ \E p \in DOMAIN pools : pools[p] = "pending"
  \/ \E w \in BagToSet(workers) : w.pc \in {"fetch", "resume"}
Running == Started /\ ~isPaused /\ ~isCancel /\ Active
Paused == Started /\ isPaused /\ ~isCancel

Init ==
  /\ fileSize \in FileSizes
  /\ maxConcurrent \in ConcurrencyValues
  /\ retryTimes \in 0 .. MaxRetry
  /\ storage \in InitialStores(Ceil(fileSize, chunkSize))
  /\ loadedChunk = getUploadedChunks(storage)
  /\ isPaused = FALSE
  /\ isCancel = FALSE
  /\ uploadedChunks = <<>>
  /\ current = 0
  /\ workers = EmptyBag
  /\ pools = <<>>
  /\ sent = [i \in Indices |-> 0]
  /\ outcomes = [i \in Indices |-> NoOutcome]
  /\ onFailCalls = [i \in Indices |-> [k \in FailKinds |-> 0]]
  /\ onSucceedCalls = 0
  /\ onProgressCalls = <<>>
  /\ validCalls = TRUE
  /\ stopHeld = FALSE

\* ----------------------------------------------------------------- actions
\* startUpload; paused is isPaused as the workers read it
startUpload(paused) ==
  /\ Len(pools) < MaxPools
  /\ IF maxConcurrent < 0
       THEN \* new Array(maxConcurrent) throws a RangeError
            /\ pools' = Append(pools, "rejected")
            /\ UNCHANGED <<workers, current, sent, onSucceedCalls>>
       ELSE LET r == LaunchWorkers(maxConcurrent, Len(pools) + 1, paused, current, <<>>)
                status == PromiseAll("pending", Range(r.ws))
            IN /\ workers' = workers (+) AsBag(r.ws)
               /\ current' = r.cur
               /\ sent' = Issued(sent, r.ws)
               /\ pools' = Append(pools, status)
               /\ onSucceedCalls' = onSucceedCalls + Succeeds("pending", status)

\* instance.start(); its valid state is Idle: not started and not cancelled
Start ==
  /\ startUpload(isPaused)
  /\ validCalls' = (validCalls /\ ~Started /\ ~isCancel)
  /\ UNCHANGED <<config, storage, isPaused, isCancel, uploadedChunks, outcomes,
                 onFailCalls, onProgressCalls, stopHeld>>

\* instance.stop()
pauseUpload ==
  /\ isPaused' = TRUE
  /\ validCalls' = (validCalls /\ Running)
  /\ stopHeld' = TRUE
  /\ UNCHANGED <<config, storage, isCancel, uploadedChunks, current, workers, pools,
                 sent, outcomes, onFailCalls, onSucceedCalls, onProgressCalls>>

\* continue() that relaunches the pool but leaves the paused flag set
continueUpload_StillPaused ==
  /\ isPaused' = isPaused
  /\ startUpload(isPaused)
  /\ validCalls' = (validCalls /\ Paused)
  /\ stopHeld' = FALSE
  /\ UNCHANGED <<config, storage, isCancel, uploadedChunks, outcomes,
                 onFailCalls, onProgressCalls>>

\* instance.continue()
continueUpload ==
  /\ isPaused' = FALSE
  /\ startUpload(FALSE)
  /\ validCalls' = (validCalls /\ Paused)
  /\ stopHeld' = FALSE
  /\ UNCHANGED <<config, storage, isCancel, uploadedChunks, outcomes,
                 onFailCalls, onProgressCalls>>

\* a cancel that leaves the item in place
removeItem_Kept(store) == store

\* localStorage.removeItem(fileName)
removeItem(store) == NoItem

\* instance.cancel(); controller.abort() aborts a signal no fetch was given
cancelUpload ==
  /\ isCancel' = TRUE
  /\ isPaused' = FALSE
  /\ storage' = removeItem(storage)
  /\ validCalls' = (validCalls /\ ~isCancel)
  /\ UNCHANGED <<config, uploadedChunks, current, workers, pools, sent, outcomes,
                 onFailCalls, onSucceedCalls, onProgressCalls, stopHeld>>

\* a save that does not push the index
Pushed_Dropped(list, index) == list

\* uploadedChunks.push(index)
Pushed(list, index) == Append(list, index)

\* the retry test allowing one retry too many
ShouldRetry_OffByOne(retryCount) == retryCount <= retryTimes

\* the catch branch: retryCount < retryTimes
ShouldRetry(retryCount) == retryCount < retryTimes

\* a failure that is not reported
FailedOnce_Silent(calls, i, k) == calls

\* onFail(...) called once more for chunk i, kind k
FailedOnce(calls, i, k) == [calls EXCEPT ![i][k] = @ + 1]

\* an attempt for chunk i resolved with res while isCancel was c
Resolved(log, i, res, c) == [log EXCEPT ![i].resolved = res, ![i].cancelled = c]

\* an attempt for chunk i rejected
Rejected(log, i) == [log EXCEPT ![i].rejects = @ + 1]

\* a resolution that saves and reports without looking at isCancel
fetchResolve_SavesAfterCancel(w, ok) ==
  /\ w.pc = "fetch"
  /\ LET i == w.chunk
     IN /\ outcomes' = Resolved(outcomes, i, IF ok THEN "ok" ELSE "bad", isCancel)
        /\ onFailCalls' = IF ok THEN onFailCalls ELSE FailedOnce(onFailCalls, i, "bad")
        /\ uploadedChunks' = Pushed(uploadedChunks, i)
        /\ storage' = Item(uploadedChunks')
        /\ onProgressCalls' = Append(onProgressCalls, Progress(Len(uploadedChunks')))
  /\ workers' = Replaced(workers, w, Worker(w.pool, "resume", 0, 0))
  /\ UNCHANGED <<config, isPaused, isCancel, current, pools, sent, onSucceedCalls,
                 validCalls, stopHeld>>

\* fetch of worker w resolves with res.ok = ok: uploadChunk from line 159 to
\* its return
fetchResolve(w, ok) ==
  /\ w.pc = "fetch"
  /\ LET i == w.chunk
         bad == IF ok THEN onFailCalls ELSE FailedOnce(onFailCalls, i, "bad")
     IN /\ outcomes' = Resolved(outcomes, i, IF ok THEN "ok" ELSE "bad", isCancel)
        /\ IF isCancel
             THEN /\ onFailCalls' = FailedOnce(bad, i, "cancel")
                  /\ UNCHANGED <<uploadedChunks, storage, onProgressCalls>>
             ELSE /\ onFailCalls' = bad
                  /\ uploadedChunks' = Pushed(uploadedChunks, i)
                  /\ storage' = Item(uploadedChunks')
                  /\ onProgressCalls' = Append(onProgressCalls, Progress(Len(uploadedChunks')))
  /\ workers' = Replaced(workers, w, Worker(w.pool, "resume", 0, 0))
  /\ UNCHANGED <<config, isPaused, isCancel, current, pools, sent, onSucceedCalls,
                 validCalls, stopHeld>>

\* a catch branch that ends the worker once the retries are exhausted
fetchReject_StopsWorker(w) ==
  /\ w.pc = "fetch"
  /\ LET i == w.chunk
     IN /\ outcomes' = Rejected(outcomes, i)
        /\ IF ShouldRetry(w.retryCount)
             THEN /\ workers' = Replaced(workers, w, Worker(w.pool, "fetch", i, w.retryCount + 1))
                  /\ sent' = [sent EXCEPT ![i] = @ + 1]
                  /\ UNCHANGED onFailCalls
             ELSE /\ onFailCalls' = FailedOnce(onFailCalls, i, "exhausted")
                  /\ workers' = Replaced(workers, w, Worker(w.pool, "done", 0, 0))
                  /\ UNCHANGED sent
  /\ UNCHANGED <<config, storage, isPaused, isCancel, uploadedChunks, current, pools,
                 onSucceedCalls, onProgressCalls, validCalls, stopHeld>>

\* fetch of worker w rejects: the catch branch of uploadChunk
fetchReject(w) ==
  /\ w.pc = "fetch"
  /\ LET i == w.chunk
     IN /\ outcomes' = Rejected(outcomes, i)
        /\ IF ShouldRetry(w.retryCount)
             THEN \* await uploadChunk(chunk, retryCount + 1): the next fetch
                  /\ workers' = Replaced(workers, w, Worker(w.pool, "fetch", i, w.retryCount + 1))
                  /\ sent' = [sent EXCEPT ![i] = @ + 1]
                  /\ UNCHANGED onFailCalls
             ELSE /\ onFailCalls' = FailedOnce(onFailCalls, i, "exhausted")
                  /\ workers' = Replaced(workers, w, Worker(w.pool, "resume", 0, 0))
                  /\ UNCHANGED sent
  /\ UNCHANGED <<config, storage, isPaused, isCancel, uploadedChunks, current, pools,
                 onSucceedCalls, onProgressCalls, validCalls, stopHeld>>

\* worker w, back from await uploadChunk(data), runs the while loop again; if
\* it is the one that settles its pool, startUpload returns from its await
workerResume(w) ==
  /\ w.pc = "resume"
  /\ LET r == WorkerLoop(w.pool, isPaused, current)
     IN /\ workers' = Replaced(workers, w, r.w)
        /\ current' = r.cur
        /\ sent' = Issued(sent, <<r.w>>)
        /\ LET p == w.pool
               status == PromiseAll(pools[p], {x \in BagToSet(workers') : x.pool = p})
           IN /\ pools' = [pools EXCEPT ![p] = status]
              /\ onSucceedCalls' = onSucceedCalls + Succeeds(pools[p], status)
  /\ UNCHANGED <<config, storage, isPaused, isCancel, uploadedChunks, outcomes,
                 onFailCalls, onProgressCalls, validCalls, stopHeld>>

Next ==
  \/ Start
  \/ pauseUpload
  \/ continueUpload
  \/ cancelUpload
  \/ \E w \in Workers : fetchResolve(w, TRUE)
  \/ \E w \in Workers : fetchResolve(w, FALSE)
  \/ \E w \in Workers : fetchReject(w)
  \/ \E w \in Workers : workerResume(w)

Spec == Init /\ [][Next]_vars

\* A fresh session in which every transmission succeeds. The event loop runs
\* every continuation that is ready, and every fetch resolves.
InitFresh == Init /\ ~storage.has /\ maxConcurrent >= 1

NextSuccess ==
  \/ Start
  \/ pauseUpload
  \/ continueUpload
  \/ \E w \in Workers : fetchResolve(w, TRUE)
  \/ \E w \in Workers : workerResume(w)

SuccessSpec ==
  /\ InitFresh
  /\ [][NextSuccess]_vars
  /\ WF_vars(\E w \in Workers : fetchResolve(w, TRUE))
  /\ WF_vars(\E w \in Workers : workerResume(w))

\* Sessions over the file sizes of the chunk plan: nothing persisted, start()
\* only, every transmission succeeds.
InitPlan ==
  /\ fileSize \in PlanSizes
  /\ maxConcurrent \in 1 .. MaxConcurrent
  /\ retryTimes = 0
  /\ storage = NoItem
  /\ loadedChunk = getUploadedChunks(storage)
  /\ isPaused = FALSE
  /\ isCancel = FALSE
  /\ uploadedChunks = <<>>
  /\ current = 0
  /\ workers = EmptyBag
  /\ pools = <<>>
  /\ sent = [i \in Indices |-> 0]
  /\ outcomes = [i \in Indices |-> NoOutcome]
  /\ onFailCalls = [i \in Indices |-> [k \in FailKinds |-> 0]]
  /\ onSucceedCalls = 0
  /\ onProgressCalls = <<>>
  /\ validCalls = TRUE
  /\ stopHeld = FALSE

NextPlan ==
  \/ Start
  \/ \E w \in Workers : fetchResolve(w, TRUE)
  \/ \E w \in Workers : workerResume(w)

PlanSpec == InitPlan /\ [][NextPlan]_vars

\* Sessions in which transmissions may fail, with start() as the only control
\* call. Every fetch settles one way or the other, and the event loop runs
\* every continuation that is ready.
InitFail == Init /\ maxConcurrent >= 1

fetchSettles ==
  \E w \in Workers : fetchResolve(w, TRUE) \/ fetchResolve(w, FALSE) \/ fetchReject(w)

NextFail ==
  \/ Start
  \/ \E w \in Workers : fetchResolve(w, TRUE)
  \/ \E w \in Workers : fetchResolve(w, FALSE)
  \/ \E w \in Workers : fetchReject(w)
  \/ \E w \in Workers : workerResume(w)

FailSpec ==
  /\ InitFail
  /\ [][NextFail]_vars
  /\ WF_vars(fetchSettles)
  /\ WF_vars(\E w \in Workers : workerResume(w))

\* ----------------------------------------------------------- type invariant
TypeOK ==
  /\ current \in 0 .. totalChunks
  /\ isPaused \in BOOLEAN /\ isCancel \in BOOLEAN
  /\ Len(pools) <= MaxPools
  /\ \A w \in Workers : w.pc \in {"fetch", "resume", "done", "threw"}
  /\ BagCardinality(workers) <= MaxPools * MaxConcurrent

\* ------------------------------------------------------------ observations
\* transmissions claimed and not yet finished: the fetch calls in flight
Outstanding == Cardinality({w \in Workers : w.pc = "fetch"})

InFlight(i) == \E w \in Workers : w.pc = "fetch" /\ w.chunk = i

\* every worker launched so far has returned or thrown
Settled == Started /\ \A w \in Workers : w.pc \in {"done", "threw"}

\* onFail calls caused by chunk i
Fails(i) == onFailCalls[i]["exhausted"] + onFailCalls[i]["bad"] + onFailCalls[i]["cancel"]

\* the indices persisted under fileName
Persisted == Range(getUploadedChunks(storage))

\* no attempt so far has failed
AllOk == \A i \in Indices : outcomes[i].rejects = 0 /\ outcomes[i].resolved # "bad"

\* start() was called once, in Idle, and no other control call was made
OnlyStarted == validCalls /\ Len(pools) = 1 /\ ~isPaused /\ ~isCancel /\ ~stopHeld

\* -------------------------------------------------------------- properties
\* C1: with start(), stop() and continue() called in their valid states, the
\* number of transmissions claimed but not finished never exceeds maxConcurrent.
C1_BoundedConcurrency ==
  (validCalls /\ ~isCancel /\ maxConcurrent >= 1) => Outstanding <= maxConcurrent

\* C2: after stop() on a running session the cursor does not advance until
\* continue() is called, whatever other control call (cancel() included) is made
\* in its valid state in between, and stop() leaves the transmissions in flight
\* alone.
C2_StopHoldsCursor ==
  [][validCalls' =>
       /\ (stopHeld /\ stopHeld') => current' = current
       /\ (~stopHeld /\ stopHeld') => workers' = workers]_vars

\* C4: once onFail has been invoked for a chunk that exhausted its retries,
\* onSucceed is never invoked.
C4_NoSucceedAfterFail ==
  [][(validCalls' /\ \E i \in Indices : onFailCalls[i]["exhausted"] > 0)
       => onSucceedCalls' = onSucceedCalls]_vars

\* C5: immediately after cancel() returns the persisted item is gone, whatever
\* state the session was in.
C5_CancelClearsStore == [][cancelUpload => ~storage'.has]_vars

\* cancel() was called on a session with saved chunks and a transmission in flight
C5_Witness ==
  isCancel /\ ~storage.has /\ Len(uploadedChunks) > 0 /\ Outstanding > 0

\* C6: start() with a non-empty persisted set K and only successful
\* transmissions: no chunk of K is transmitted, every other chunk is transmitted
\* exactly once, and the pool drains normally (no worker throws).
C6_ResumePlanScheduled ==
  (loadedChunk # <<>> /\ maxConcurrent >= 1 /\ OnlyStarted /\ AllOk) =>
    /\ \A i \in Indices : sent[i] <= (IF Includes(loadedChunk, i) THEN 0 ELSE 1)
    /\ \A w \in Workers : w.pc # "threw"
    /\ Settled => \A i \in Indices : sent[i] = (IF Includes(loadedChunk, i) THEN 0 ELSE 1)

\* C7: without cancel() the persisted set only grows, the indices loaded at
\* start included, and stays within [0, totalChunks).
C7_PersistedGrows ==
  [][~isCancel' => (Persisted \subseteq Persisted' /\ Persisted' \subseteq Indices)]_vars

\* C8: a chunk whose every attempt rejects is transmitted exactly retryTimes + 1
\* times, onFail is then invoked exactly once for it, and it is never recorded
\* as completed.
C8_RetryExhausted ==
  \A i \in Indices :
    /\ sent[i] <= retryTimes + 1
    /\ (outcomes[i].resolved = "none" /\ outcomes[i].rejects > 0) =>
         ~Includes(uploadedChunks, i)
    /\ (outcomes[i].resolved = "none" /\ outcomes[i].rejects > 0 /\ ~InFlight(i)) =>
         /\ sent[i] = retryTimes + 1
         /\ outcomes[i].rejects = retryTimes + 1
         /\ onFailCalls[i]["exhausted"] = 1
         /\ Fails(i) = 1

\* a chunk was retried and gave up
C8_Witness ==
  \E i \in Indices :
    /\ retryTimes >= 1
    /\ outcomes[i].resolved = "none" /\ outcomes[i].rejects = retryTimes + 1
    /\ ~InFlight(i)

\* C9 as stated: a chunk whose first k <= retryTimes attempts reject and whose
\* next attempt succeeds is transmitted exactly k + 1 times, is recorded as
\* completed exactly once and causes no onFail call.
C9_RetryThenSuccess ==
  \A i \in Indices :
    (outcomes[i].resolved = "ok" /\ outcomes[i].rejects <= retryTimes) =>
      /\ sent[i] = outcomes[i].rejects + 1
      /\ Count(uploadedChunks, i) = 1
      /\ Fails(i) = 0

\* C9 amended: the same, provided cancel() was not called before the successful
\* attempt resolved; if it was, the chunk is not recorded and onFail is invoked
\* once, with the cancel error.
C9_RetryThenSuccessUnlessCancelled ==
  \A i \in Indices :
    (outcomes[i].resolved = "ok" /\ outcomes[i].rejects <= retryTimes) =>
      /\ sent[i] = outcomes[i].rejects + 1
      /\ IF outcomes[i].cancelled
           THEN Count(uploadedChunks, i) = 0 /\ Fails(i) = 1
                  /\ onFailCalls[i]["cancel"] = 1
           ELSE Count(uploadedChunks, i) = 1 /\ Fails(i) = 0

\* a chunk failed once, succeeded on the retry and was recorded
C9_Witness ==
  \E i \in Indices :
    /\ outcomes[i].resolved = "ok" /\ outcomes[i].rejects >= 1
    /\ ~outcomes[i].cancelled
    /\ Includes(uploadedChunks, i)


\* the chunks whose fetch is in flight
Fetching == {w.chunk : w \in {x \in Workers : x.pc = "fetch"}}

\* continue() was called, after start() and stop(), all in their valid states
Resumed == validCalls /\ Len(pools) >= 2

\* every chunk is recorded as completed and, when there is a chunk, 100 was
\* reported
Drained ==
  /\ Len(uploadedChunks) = totalChunks
  /\ totalChunks > 0 => \E j \in DOMAIN onProgressCalls : IsHundred(onProgressCalls[j])

C10_FreshAllOnce ==
  /\ [](OnlyStarted =>
          /\ \A i \in Indices : sent[i] <= 1
          /\ \A w \in Workers : w.pc # "threw"
          /\ Cardinality(Fetching) <= current /\ current <= totalChunks)
  /\ OnlyStarted ~> (~OnlyStarted \/ (Settled /\ \A i \in Indices : sent[i] = 1))

\* more workers than chunks, and every chunk was transmitted once
C10_Witness ==
  /\ OnlyStarted /\ Settled
  /\ maxConcurrent > totalChunks /\ totalChunks >= 1
  /\ \A i \in Indices : sent[i] = 1

\* the value last passed to onProgress is 100
LastProgressHundred ==
  /\ onProgressCalls # <<>>
  /\ IsHundred(onProgressCalls[Len(onProgressCalls)])

\* C11: in a session where every transmission succeeds and only start() is
\* called, once the session has come to rest onSucceed was invoked exactly
\* once, onFail never, and the last progress value reported is 100. Stated for
\* a positive maxConcurrent and a session that transmitted at least one chunk.
C11_SucceedsOnce ==
  (/\ OnlyStarted /\ AllOk /\ Settled
   /\ maxConcurrent >= 1
   /\ \E i \in Indices : outcomes[i].resolved = "ok") =>
    /\ onSucceedCalls = 1
    /\ \A i \in Indices : Fails(i) = 0
    /\ LastProgressHundred

\* C12: after cancel() on a running or paused session no worker claims a
\* further chunk (the cursor stays) and no new transmission is started.
C12_CancelledTerminal ==
  [][(validCalls' /\ isCancel) => (current' = current /\ sent' = sent)]_vars

\* the byte ranges of plan, in order, partition [0, size) into chunks of length
\* chunkSize (the last one may be shorter), indexed 0, 1, 2, ...
Partitions(plan, size) ==
  /\ Len(plan) = 0 <=> size = 0
  /\ \A j \in DOMAIN plan :
       /\ plan[j].index = j - 1
       /\ plan[j].start = (IF j = 1 THEN 0 ELSE plan[j - 1].end)
       /\ plan[j].start < plan[j].end
       /\ j < Len(plan) => plan[j].end - plan[j].start = chunkSize
       /\ j = Len(plan) => plan[j].end = size

\* C13: with no persisted indices the planned chunk ranges partition
\* [0, file.size) exactly: contiguous, non-overlapping, every chunk but the last
\* of length chunkSize, indices 0..n-1 ascending, and as many chunks as
\* totalChunks = ceil(file.size / chunkSize), 0 for an empty file.
C13_PlanPartitions ==
  loadedChunk = <<>> =>
    /\ Partitions(createChunk, fileSize)
    /\ Len(createChunk) = totalChunks
    /\ fileSize = 0 => totalChunks = 0

\* a started session over a file of at least three chunks whose last chunk is
\* shorter than chunkSize; every planned chunk was transmitted
C13_Witness ==
  /\ Started /\ Settled /\ loadedChunk = <<>>
  /\ Len(createChunk) >= 3
  /\ createChunk[Len(createChunk)].end - createChunk[Len(createChunk)].start < chunkSize
  /\ \A j \in DOMAIN createChunk : sent[createChunk[j].index] = 1

\* C14: for an instance constructed with a non-positive maxConcurrent no
\* transmission is ever issued and start() never invokes onSucceed or
\* onProgress. Stated for a file of at least one chunk.
C14_NonPositiveConcurrencyInert ==
  (maxConcurrent <= 0 /\ totalChunks >= 1) =>
    /\ \A i \in Indices : sent[i] = 0
    /\ onSucceedCalls = 0
    /\ onProgressCalls = <<>>

\* the chunks for which a transmission was issued
Claimed == {i \in Indices : sent[i] > 0}

\* the workers that claimed a cursor value for which there was no chunk
Threw == {w \in Workers : w.pc = "threw"}

\* C15: for any interleaving of the workers and any sequence of control calls
\* (several pools sharing the cursor included): every cursor value is claimed by
\* one worker only (the cursor counts the claims, and no two workers hold the
\* same chunk), the chunks are claimed in strictly increasing index order, one
\* claim leads to at most retryTimes + 1 transmissions, and no chunk that
\* completed, in this session or in the persisted one, is transmitted again.
C15_ExclusiveClaims ==
  /\ [](/\ \A w \in Workers :
             w.pc = "fetch" =>
               /\ CopiesIn(w, workers) = 1
               /\ \A v \in Workers : (v.pc = "fetch" /\ v.chunk = w.chunk) => v = w
        /\ current = Cardinality(Claimed)
                       + BagCardinality([w \in Threw |-> CopiesIn(w, workers)])
        /\ loadedChunk = <<>> => Claimed = 0 .. (current - 1)
        /\ \A i \in Indices :
             /\ sent[i] <= retryTimes + 1
             /\ Includes(loadedChunk, i) => sent[i] = 0)
  /\ [][/\ current' >= current
        /\ \A i \in Claimed' \ Claimed : \A j \in Claimed : j < i
        /\ \A i \in Indices : Includes(uploadedChunks, i) => sent'[i] = sent[i]]_vars

\* two pools share the cursor: after start(), stop() and continue() a worker of
\* each pool has a transmission in flight, and the second pool's chunk is the
\* later one
C15_Witness ==
  /\ validCalls /\ Len(pools) = 2
  /\ \E w, v \in Workers :
       /\ w.pool = 1 /\ w.pc = "fetch"
       /\ v.pool = 2 /\ v.pc = "fetch"
       /\ w.chunk < v.chunk

\* C16: onSucceed is invoked only when every chunk index has been claimed and
\* no upload is still in flight. Stated for its particular case: a session
\* stopped by stop() and not yet continued, control calls made in their valid
\* states, a positive maxConcurrent and nothing persisted.
C16_SucceedOnlyWhenDrained ==
  [][(/\ validCalls' /\ maxConcurrent >= 1 /\ loadedChunk = <<>>
      /\ stopHeld'
      /\ onSucceedCalls' > onSucceedCalls) =>
       (current' = totalChunks /\ Fetching' = {})]_vars

\* onFail was invoked for a chunk that exhausted its retries
SomeExhausted == \E i \in Indices : onFailCalls[i]["exhausted"] > 0

\* every chunk of the plan was claimed and transmitted
PlanTransmitted == \A j \in DOMAIN createChunk : sent[createChunk[j].index] >= 1

\* C17: with start() as the only control call, once onFail has fired for a
\* chunk that exhausted its retries every chunk still unclaimed is eventually
\* claimed and transmitted, and a transmission that succeeds is recorded as
\* completed, in memory and in the persisted item.
C17_PoolSurvivesFailure ==
  /\ SomeExhausted ~> (Settled /\ PlanTransmitted)
  /\ [][\A i \in Indices :
          (outcomes'[i].resolved = "ok" /\ outcomes[i].resolved # "ok") =>
            (Includes(uploadedChunks', i) /\ i \in Persisted')]_vars

\* a single worker gave up on chunk 0, then claimed chunk 1, whose
\* transmission succeeded and was recorded
C17_Witness ==
  /\ maxConcurrent = 1 /\ loadedChunk = <<>> /\ totalChunks >= 2
  /\ onFailCalls[0]["exhausted"] = 1
  /\ outcomes[1].resolved = "ok" /\ Includes(uploadedChunks, 1)
  /\ Settled

\* the step in which a transmission of chunk i resolves with a response that
\* is not ok
ResolvesBad(i) == outcomes[i].resolved = "none" /\ outcomes'[i].resolved = "bad"

\* C18 as stated: a transmission that resolves with a non-success response is
\* not retried, onFail is invoked once for it and, unless cancel() was called,
\* the chunk is recorded in the persisted item and a progress report is made.
C18_BadResponseRecorded ==
  [][\A i \in Indices :
       /\ outcomes[i].resolved = "bad" => sent'[i] = sent[i]
       /\ ResolvesBad(i) =>
            /\ sent' = sent
            /\ Fails(i)' = Fails(i) + 1
            /\ ~isCancel =>
                 /\ Includes(uploadedChunks', i) /\ i \in Persisted'
                 /\ Len(onProgressCalls') = Len(onProgressCalls) + 1]_vars

\* C18 amended: the same, except that onFail is invoked once with the
\* bad-response error and, if cancel() was called before the response
\* arrived, once more with the cancel error; in that case nothing is recorded
\* or reported.
C18_BadResponseRecordedUnlessCancelled ==
  [][\A i \in Indices :
       /\ outcomes[i].resolved = "bad" => sent'[i] = sent[i]
       /\ ResolvesBad(i) =>
            /\ sent' = sent
            /\ onFailCalls'[i]["bad"] = onFailCalls[i]["bad"] + 1
            /\ onFailCalls'[i]["exhausted"] = onFailCalls[i]["exhausted"]
            /\ IF isCancel
                 THEN /\ onFailCalls'[i]["cancel"] = onFailCalls[i]["cancel"] + 1
                      /\ uploadedChunks' = uploadedChunks
                      /\ storage' = storage
                      /\ onProgressCalls' = onProgressCalls
                 ELSE /\ onFailCalls'[i]["cancel"] = onFailCalls[i]["cancel"]
                      /\ Count(uploadedChunks', i) = Count(uploadedChunks, i) + 1
                      /\ i \in Persisted'
                      /\ Len(onProgressCalls') = Len(onProgressCalls) + 1]_vars

\* a first transmission came back with a bad response while retries were
\* left: it was not sent again, onFail was called once and the chunk was saved
C18_Witness ==
  \E i \in Indices :
    /\ retryTimes >= 1 /\ sent[i] = 1
    /\ outcomes[i].resolved = "bad" /\ ~outcomes[i].cancelled
    /\ Fails(i) = 1 /\ onFailCalls[i]["bad"] = 1
    /\ Includes(uploadedChunks, i) /\ i \in Persisted
    /\ ~InFlight(i)

\* C19: once cancel() has been called the persisted item stays absent for the
\* rest of the instance's life, whatever completions and control calls follow:
\* nothing is recorded as completed and nothing is reported through onProgress.
C19_CancelledStaysEmpty ==
  /\ [](isCancel => Persisted = {} /\ ~storage.has)
  /\ [][isCancel =>
          /\ isCancel'
          /\ uploadedChunks' = uploadedChunks
          /\ onProgressCalls' = onProgressCalls]_vars

\* a chunk was saved, cancel() was called with another transmission in flight,
\* and that transmission then succeeded: it is not in uploadedChunks and the
\* item is absent
C19_Witness ==
  /\ isCancel /\ ~storage.has
  /\ Len(uploadedChunks) > 0
  /\ \E i \in Indices :
       /\ outcomes[i].resolved = "ok" /\ outcomes[i].cancelled
       /\ ~Includes(uploadedChunks, i)

\* a transmission of chunk i resolved and was recorded as completed
Recorded(i) == outcomes[i].resolved \in {"ok", "bad"} /\ ~outcomes[i].cancelled

\* C20: in a fresh session without cancel(), after any interleaving of worker
\* completions the persisted list holds exactly the indices of the chunks
\* recorded as completed so far, each once: it equals the in-memory list, no
\* index is lost to a later save and none appears twice.
C20_PersistedIsRecorded ==
  (loadedChunk = <<>> /\ ~isCancel) =>
    /\ getUploadedChunks(storage) = uploadedChunks
    /\ \A i \in Indices :
         Count(getUploadedChunks(storage), i) = (IF Recorded(i) THEN 1 ELSE 0)

\* two transmissions were in flight together and completed in the reverse
\* order of their claims; both are persisted
C20_Witness ==
  /\ loadedChunk = <<>> /\ ~isCancel /\ maxConcurrent >= 2
  /\ storage.has /\ storage.val = <<1, 0>>
  /\ Recorded(0) /\ Recorded(1)

====
